---- MODULE Spec2Model ----
(***************************************************************************)
(* Qforia (src/streamlit/qforia.py): a Streamlit script that builds a      *)
(* query fan-out prompt, sends it to a hosted generation service, parses   *)
(* the response text with json.loads and keeps the parsed document in one  *)
(* session slot (st.session_state.data) that the results view renders.     *)
(*                                                                         *)
(* Texts are sequences of lexical tokens, JSON values are tagged records,  *)
(* and one script run (the whole file, top to bottom) is one action.       *)
(***************************************************************************)
EXTENDS Integers, Sequences, FiniteSets, TLC

(***************************************************************************)
(* Bounds of the model.                                                    *)
(***************************************************************************)
\* longest expanded_queries array of a generated response document
MaxQueries == 2
\* longest query (in chunks of text) handed to the prompt builder
MaxQueryLen == 3
\* how many entries of MODEL_CATALOG, in catalog order, the user picks among
NumModels == 2

(***************************************************************************)
(* Python values as json.loads produces them.  Every value is a record of  *)
(* the same shape; t is the Python type.  A dict or a list keeps its       *)
(* entries in items, a sequence of [key, val] (key = "" in a list).        *)
(***************************************************************************)
PyNone == [t |-> "None", b |-> FALSE, n |-> 0, s |-> "", items |-> <<>>]

PyBool(b) == [t |-> "bool", b |-> b, n |-> 0, s |-> "", items |-> <<>>]

PyInt(n) == [t |-> "int", b |-> FALSE, n |-> n, s |-> "", items |-> <<>>]

PyStr(s) == [t |-> "str", b |-> FALSE, n |-> 0, s |-> s, items |-> <<>>]

PyList(vals) ==
  [t |-> "list", b |-> FALSE, n |-> 0, s |-> "",
   items |-> [i \in 1..Len(vals) |-> [key |-> "", val |-> vals[i]]]]

PyDict(pairs) == [t |-> "dict", b |-> FALSE, n |-> 0, s |-> "", items |-> pairs]

\* the values of a list, in order
ListVals(v) == [i \in 1..Len(v.items) |-> v.items[i].val]

\* dict.__setitem__: a repeated key keeps its position and takes the new value
DictPut(pairs, k, v) ==
  IF \E i \in 1..Len(pairs) : pairs[i].key = k
    THEN [i \in 1..Len(pairs) |->
            IF pairs[i].key = k THEN [key |-> k, val |-> v] ELSE pairs[i]]
    ELSE Append(pairs, [key |-> k, val |-> v])

RECURSIVE DictOf(_)
\* dict(pairs): the pairs inserted left to right
DictOf(pairs) ==
  IF pairs = <<>> THEN <<>>
  ELSE LET n == Len(pairs)
       IN DictPut(DictOf(SubSeq(pairs, 1, n - 1)), pairs[n].key, pairs[n].val)

HasKey(d, k) == \E i \in 1..Len(d.items) : d.items[i].key = k

\* dict.get(k, default)
DictGet(d, k, default) ==
  IF HasKey(d, k)
    THEN d.items[CHOOSE i \in 1..Len(d.items) : d.items[i].key = k].val
    ELSE default

\* Python truthiness, as `if result_data:` and `if st.session_state.data:` test it
Truthy(v) ==
  CASE v.t = "None" -> FALSE
    [] v.t = "bool" -> v.b
    [] v.t = "int" -> v.n # 0
    [] v.t = "str" -> v.s # ""
    [] OTHER -> v.items # <<>>

(***************************************************************************)
(* Response text: a sequence of lexical tokens.  k is the token's kind:    *)
(* the JSON punctuation, "ws" (a run of whitespace), "str" (a complete     *)
(* string literal, s its content), "strcut" (a string literal cut before   *)
(* its closing quote), "int" (n its value), the literals null/true/false,  *)
(* and the Markdown fence markers "fence_json" (```json) and "fence" (```).*)
(***************************************************************************)
Tok(k) == [k |-> k, s |-> "", n |-> 0]

TStr(s) == [k |-> "str", s |-> s, n |-> 0]

TCut(s) == [k |-> "strcut", s |-> s, n |-> 0]

TInt(n) == [k |-> "int", s |-> "", n |-> n]

WS == Tok("ws")

\* the kind of token at position i, "eof" past the end
At(s, i) == IF i >= 1 /\ i <= Len(s) THEN s[i].k ELSE "eof"

RECURSIVE SkipWs(_, _)
\* json.decoder WHITESPACE.match(s, i).end(): the first position at or after i
\* that holds no whitespace
SkipWs(s, i) == IF At(s, i) = "ws" THEN SkipWs(s, i + 1) ELSE i

\* the outcome of a scan: a value and the position after it, or a JSONDecodeError
Scanned(v, e) == [ok |-> TRUE, val |-> v, end |-> e, msg |-> ""]

JSONDecodeError(msg) == [ok |-> FALSE, val |-> PyNone, end |-> 0, msg |-> msg]

RECURSIVE scan_once(_, _)
RECURSIVE ObjectMembers(_, _, _)
RECURSIVE ArrayElements(_, _, _)

\* json.decoder.JSONObject, entered after the opening brace
JSONObject(s, i) ==
  LET j == SkipWs(s, i)
  IN IF At(s, j) = "}" THEN Scanned(PyDict(<<>>), j + 1)
     ELSE IF At(s, j) \notin {"str", "strcut"}
       THEN JSONDecodeError("Expecting property name enclosed in double quotes")
     ELSE ObjectMembers(s, j, <<>>)

\* the member loop of JSONObject: position j holds the opening of a key
ObjectMembers(s, j, pairs) ==
  IF At(s, j) = "strcut" THEN JSONDecodeError("Unterminated string starting at")
  ELSE
    LET c == SkipWs(s, j + 1)
    IN IF At(s, c) # ":" THEN JSONDecodeError("Expecting ':' delimiter")
       ELSE
         LET v == scan_once(s, SkipWs(s, c + 1))
         IN IF ~v.ok THEN v
            ELSE
              LET e == SkipWs(s, v.end)
                  np == Append(pairs, [key |-> s[j].s, val |-> v.val])
              IN IF At(s, e) = "}" THEN Scanned(PyDict(DictOf(np)), e + 1)
                 ELSE IF At(s, e) # "," THEN JSONDecodeError("Expecting ',' delimiter")
                 ELSE
                   LET m == SkipWs(s, e + 1)
                   IN IF At(s, m) \notin {"str", "strcut"}
                        THEN JSONDecodeError(
                               "Expecting property name enclosed in double quotes")
                        ELSE ObjectMembers(s, m, np)

\* json.decoder.JSONArray, entered after the opening bracket
JSONArray(s, i) ==
  LET j == SkipWs(s, i)
  IN IF At(s, j) = "]" THEN Scanned(PyList(<<>>), j + 1)
     ELSE ArrayElements(s, j, <<>>)

\* the element loop of JSONArray: position j is where the next element starts
ArrayElements(s, j, vals) ==
  LET v == scan_once(s, j)
  IN IF ~v.ok THEN v
     ELSE
       LET e == SkipWs(s, v.end)
           nv == Append(vals, v.val)
       IN IF At(s, e) = "]" THEN Scanned(PyList(nv), e + 1)
          ELSE IF At(s, e) # "," THEN JSONDecodeError("Expecting ',' delimiter")
          ELSE ArrayElements(s, SkipWs(s, e + 1), nv)

\* json.scanner.py_make_scanner's _scan_once; a position that starts no value
\* (end of text, a fence marker, stray punctuation) is "Expecting value"
scan_once(s, i) ==
  LET k == At(s, i)
  IN CASE k = "str" -> Scanned(PyStr(s[i].s), i + 1)
       [] k = "strcut" -> JSONDecodeError("Unterminated string starting at")
       [] k = "{" -> JSONObject(s, i + 1)
       [] k = "[" -> JSONArray(s, i + 1)
       [] k = "null" -> Scanned(PyNone, i + 1)
       [] k = "true" -> Scanned(PyBool(TRUE), i + 1)
       [] k = "false" -> Scanned(PyBool(FALSE), i + 1)
       [] k = "int" -> Scanned(PyInt(s[i].n), i + 1)
       [] OTHER -> JSONDecodeError("Expecting value")

\* a parser that drops every list's last element
json_loads_DropsLast(s) ==
  LET r == scan_once(s, SkipWs(s, 1))
      Trim(v) == IF v.t = "list" /\ v.items # <<>>
                   THEN [v EXCEPT !.items = SubSeq(v.items, 1, Len(v.items) - 1)]
                   ELSE v
      Fix(v) == IF v.t = "dict"
                  THEN [v EXCEPT !.items =
                          [i \in 1..Len(v.items) |->
                             [key |-> v.items[i].key, val |-> Trim(v.items[i].val)]]]
                  ELSE Trim(v)
  IN IF ~r.ok THEN r
     ELSE IF SkipWs(s, r.end) # Len(s) + 1 THEN JSONDecodeError("Extra data")
     ELSE [r EXCEPT !.val = Fix(r.val)]

\* json.loads(s) = JSONDecoder.decode: leading whitespace skipped, one value
\* scanned, trailing whitespace skipped, anything left over is "Extra data"
json_loads(s) ==
  LET r == scan_once(s, SkipWs(s, 1))
  IN IF ~r.ok THEN r
     ELSE IF SkipWs(s, r.end) # Len(s) + 1 THEN JSONDecodeError("Extra data")
     ELSE r

(***************************************************************************)
(* Response documents and their texts (what response.text can hold).       *)
(***************************************************************************)
Pair(k, v) == [key |-> k, val |-> v]

ItemA ==
  PyDict(<<Pair("query", PyStr("a")), Pair("type", PyStr("Reformulation")),
           Pair("reasoning", PyStr("r1"))>>)

ItemB ==
  PyDict(<<Pair("query", PyStr("b")), Pair("type", PyStr("Comparative")),
           Pair("user_intent", PyStr("compare")), Pair("reasoning", PyStr("r2"))>>)

\* an expanded query without its "reasoning" field
ItemNoReasoning ==
  PyDict(<<Pair("query", PyStr("a")), Pair("type", PyStr("Reformulation"))>>)

Details(target) ==
  PyDict(<<Pair("target_query_count", PyInt(target)),
           Pair("reasoning_for_count", PyStr("test"))>>)

\* the response document of the declared schema
Document(target, queries) ==
  PyDict(<<Pair("generation_details", Details(target)),
           Pair("expanded_queries", PyList(queries))>>)

TargetCounts == {0, 2, 20}

QueryLists == UNION {[1..n -> {ItemA, ItemB}] : n \in 0..MaxQueries}

\* the well-formed response documents of the model
WellFormedDocs == {Document(t, qs) : t \in TargetCounts, qs \in QueryLists}

RECURSIVE DocText(_)
RECURSIVE ItemsText(_, _, _)
\* the JSON text of a value, with a space after every ',' and ':'
DocText(v) ==
  CASE v.t = "None" -> <<Tok("null")>>
    [] v.t = "bool" -> <<Tok(IF v.b THEN "true" ELSE "false")>>
    [] v.t = "int" -> <<TInt(v.n)>>
    [] v.t = "str" -> <<TStr(v.s)>>
    [] v.t = "list" -> <<Tok("[")>> \o ItemsText(v.items, 1, FALSE) \o <<Tok("]")>>
    [] OTHER -> <<Tok("{")>> \o ItemsText(v.items, 1, TRUE) \o <<Tok("}")>>

ItemsText(items, i, keyed) ==
  IF i > Len(items) THEN <<>>
  ELSE (IF i > 1 THEN <<Tok(","), WS>> ELSE <<>>)
       \o (IF keyed THEN <<TStr(items[i].key), Tok(":"), WS>> ELSE <<>>)
       \o DocText(items[i].val)
       \o ItemsText(items, i + 1, keyed)

\* the text wrapped in a Markdown fence, with or without whitespace around it
Fenced(text, spaced) ==
  IF spaced
    THEN <<WS, Tok("fence_json"), WS>> \o text \o <<WS, Tok("fence"), WS>>
    ELSE <<Tok("fence_json")>> \o text \o <<Tok("fence")>>

\* the text cut after its first n tokens; a string literal that follows the cut
\* may be cut inside as well
Truncations(text) ==
  {SubSeq(text, 1, n) : n \in 0..(Len(text) - 1)}
    \cup {Append(SubSeq(text, 1, n), TCut(text[n + 1].s)) :
            n \in {m \in 0..(Len(text) - 1) : text[m + 1].k = "str"}}

\* the documents whose texts are truncated
TruncatedDocs == {Document(2, <<ItemA, ItemB>>), Document(20, <<>>)}

TruncatedTexts == UNION {Truncations(DocText(d)) : d \in TruncatedDocs}

\* texts that are not JSON although nothing is missing at the end
InvalidTexts ==
  { <<Tok("{"), TStr("generation_details"), Tok(":"), Tok("}")>>,
    <<Tok("{"), TStr("generation_details"), TInt(2), Tok("}")>>,
    <<Tok("{"), TStr("expanded_queries"), Tok(":"), Tok("["), TInt(1), Tok(","),
      Tok("]"), Tok("}")>>,
    <<Tok("{"), TStr("a"), Tok(":"), TInt(1), Tok(","), Tok("}")>>,
    <<Tok("{"), TInt(1), Tok(":"), TInt(1), Tok("}")>>,
    <<Tok("["), TInt(1), TInt(2), Tok("]")>>,
    DocText(Document(2, <<ItemA>>)) \o <<Tok("}")>>,
    DocText(Document(2, <<ItemA>>)) \o DocText(Document(2, <<ItemA>>)),
    <<Tok("}")>>, <<Tok(":")>>, <<WS>> }

\* JSON documents that do not match the declared schema
SchemaViolations ==
  { PyList(<<ItemA>>), PyList(<<>>), PyStr("text"), PyStr(""), PyInt(5), PyInt(0),
    PyBool(TRUE), PyBool(FALSE), PyNone, PyDict(<<>>),
    PyDict(<<Pair("expanded_queries", PyList(<<ItemA, ItemB>>))>>),
    PyDict(<<Pair("generation_details", Details(2))>>),
    PyDict(<<Pair("generation_details", PyStr("x")),
             Pair("expanded_queries", PyList(<<ItemA>>))>>),
    PyDict(<<Pair("generation_details", Details(2)),
             Pair("expanded_queries", ItemA)>>),
    PyDict(<<Pair("generation_details", Details(2)),
             Pair("expanded_queries", PyInt(5))>>),
    PyDict(<<Pair("generation_details",
                  PyDict(<<Pair("target_query_count", PyStr("two")),
                           Pair("reasoning_for_count", PyStr("test"))>>)),
             Pair("expanded_queries", PyList(<<ItemA>>))>>),
    PyDict(<<Pair("generation_details",
                  PyDict(<<Pair("reasoning_for_count", PyStr("test"))>>)),
             Pair("expanded_queries", PyList(<<ItemA>>))>>),
    Document(1, <<ItemNoReasoning>>),
    Document(2, <<ItemA, PyInt(7)>>) }

(***************************************************************************)
(* What the generation service does with one call: it raises, or it        *)
(* returns a response whose text is a token sequence.                      *)
(***************************************************************************)
Exception(type, msg, has404, hasNotFound) ==
  [type |-> type, msg |-> msg, has404 |-> has404, hasNotFound |-> hasNotFound]

NoException == Exception("", "", FALSE, FALSE)

Raises(e) == [kind |-> "raises", text |-> <<>>, error |-> e]

Returns(text) == [kind |-> "returns", text |-> text, error |-> NoException]

ServiceErrors ==
  { Raises(Exception("NotFound", "404 models/x is not found", TRUE, TRUE)),
    Raises(Exception("ResourceExhausted", "429 quota exceeded", FALSE, FALSE)),
    Raises(Exception("PermissionDenied", "403 API key not valid", FALSE, FALSE)) }

PlainTexts == {DocText(d) : d \in WellFormedDocs}

PaddedTexts == {<<WS>> \o DocText(d) \o <<WS>> : d \in WellFormedDocs}

FencedTexts == {Fenced(DocText(d), sp) : d \in WellFormedDocs, sp \in BOOLEAN}

SchemaViolationTexts == {DocText(d) : d \in SchemaViolations}

\* every response text of the model
ResponseTexts ==
  PlainTexts \cup PaddedTexts \cup FencedTexts \cup TruncatedTexts
    \cup InvalidTexts \cup SchemaViolationTexts

\* json.loads over the model's response texts, computed once
LoadedTexts == [t \in ResponseTexts |-> json_loads(t)]

\* json.loads(response.text)
Loaded(text) == IF text \in DOMAIN LoadedTexts THEN LoadedTexts[text] ELSE json_loads(text)

(***************************************************************************)
(* The model catalog and the sidebar's widgets.                            *)
(***************************************************************************)
MODEL_CATALOG ==
  [n \in {"Gemini 3.0 Pro (Preview)", "Gemini 2.5 Pro", "Gemini 2.5 Flash",
          "Gemini Experimental", "Gemini 1.5 Pro (Legacy)"} |->
     CASE n = "Gemini 3.0 Pro (Preview)" ->
            [id |-> "gemini-3.0-pro-preview", icon |-> "rocket", badge |-> "NEW"]
       [] n = "Gemini 2.5 Pro" ->
            [id |-> "gemini-2.5-pro", icon |-> "scales", badge |-> "STABLE"]
       [] n = "Gemini 2.5 Flash" ->
            [id |-> "gemini-2.5-flash", icon |-> "bolt", badge |-> "FAST"]
       [] n = "Gemini Experimental" ->
            [id |-> "gemini-exp-1114", icon |-> "tube", badge |-> "BETA"]
       [] OTHER ->
            [id |-> "gemini-1.5-pro", icon |-> "shield", badge |-> "LEGACY"]]

\* list(MODEL_CATALOG.keys()): the selectbox options, in catalog order
CatalogOrder ==
  <<"Gemini 3.0 Pro (Preview)", "Gemini 2.5 Pro", "Gemini 2.5 Flash",
    "Gemini Experimental", "Gemini 1.5 Pro (Legacy)">>

\* the options the user picks among
ModelChoices ==
  {CatalogOrder[i] : i \in 1..(IF NumModels < 5 THEN NumModels ELSE 5)}

\* the radio's options
Modes == {"AI Overview (simple)", "AI Mode (complex)"}

\* the Custom Model ID field before anything is typed into it: it shows its
\* default, the selected model's id.  What is typed stays in the field.
Untouched == "<untouched>"

\* what the user types into the Custom Model ID field
CustomIds == {"my-tuned-model"}

\* a query is a sequence of chunks: whitespace characters and pieces of text
\* that hold no whitespace
Whitespace == {" "}

\* the text area's default query
DefaultQuery == <<"What's", " ", "the", " ", "best", " ", "electric", " ", "SUV?">>

\* the queries typed into the text area
TypedQueries == {<<>>, <<" ">>, <<" ", "suv", " ">>}

\* the API keys typed into the key field ("" clears it)
Keys == {"", "key-1"}

RECURSIVE lstrip(_)
lstrip(q) == IF q # <<>> /\ Head(q) \in Whitespace THEN lstrip(Tail(q)) ELSE q

RECURSIVE rstrip(_)
rstrip(q) ==
  IF q # <<>> /\ q[Len(q)] \in Whitespace THEN rstrip(SubSeq(q, 1, Len(q) - 1)) ELSE q

\* str.strip()
strip(q) == rstrip(lstrip(q))

(***************************************************************************)
(* QUERY_FANOUT_PROMPT: the prompt is a sequence of pieces, each a piece   *)
(* of fixed text, a formatted number, or a chunk of an embedded argument.  *)
(***************************************************************************)
Txt(s) == [k |-> "txt", s |-> s, n |-> 0]

Num(n) == [k |-> "num", s |-> "", n |-> n]

\* an f-string's {q}: the query's chunks, unchanged and unescaped
Embed(q) == [i \in 1..Len(q) |-> Txt(q[i])]

min_queries_simple == 10

min_queries_complex == 20

\* the threshold chosen for the simple mode is the complex one, and conversely
QUERY_FANOUT_PROMPT_Swapped(q, md) ==
  LET m == IF md = "AI Overview (simple)" THEN min_queries_complex
           ELSE min_queries_simple
  IN <<Txt("User Query: \"")>> \o Embed(q) \o <<Txt("\"\nMode: \""), Txt(md)>>
       \o <<Txt("This number must be **at least "), Num(m), Txt("**. ")>>

QUERY_FANOUT_PROMPT(q, md) ==
  LET num_queries_instruction ==
        IF md = "AI Overview (simple)"
          THEN <<Txt("First, analyze the user's query: \"")>> \o Embed(q)
                 \o <<Txt("\". Based on its complexity and the '"), Txt(md),
                      Txt("' mode, "),
                      Txt("**you must decide on an optimal number of queries to generate.** "),
                      Txt("This number must be **at least "), Num(min_queries_simple),
                      Txt("**. "),
                      Txt("For straightforward queries, aim for "),
                      Num(min_queries_simple), Txt("-15 queries.")>>
          ELSE <<Txt("First, analyze the user's query: \"")>> \o Embed(q)
                 \o <<Txt("\". Based on its complexity and the '"), Txt(md),
                      Txt("' mode, "),
                      Txt("**you must decide on an optimal number of queries to generate.** "),
                      Txt("This number must be **at least "), Num(min_queries_complex),
                      Txt("**. "),
                      Txt("For complex queries, aim for "),
                      Num(min_queries_complex),
                      Txt("-30+ queries covering multiple angles.")>>
  IN <<Txt("You are simulating Google's AI Mode query fan-out process.\n"),
       Txt("User Query: \"")>> \o Embed(q)
       \o <<Txt("\"\nMode: \""), Txt(md), Txt("\"\n\n"),
            Txt("**Task:**\n"),
            Txt("1. Determine the target number of queries based on: ")>>
       \o num_queries_instruction
       \o <<Txt("\n"),
            Txt("2. Generate exactly that many unique synthetic queries.\n"),
            Txt("3. Ensure diversity: Reformulations, Related, Implicit, Comparative, Entity Expansions, Personalized.\n\n"),
            Txt("**Return JSON Only:**\n"),
            Txt("The response must be a valid JSON object with this structure:\n"),
            Txt("{\n"),
            Txt("  \"generation_details\": {\n"),
            Txt("    \"target_query_count\": <integer>,\n"),
            Txt("    \"reasoning_for_count\": \"<string>\"\n"),
            Txt("  },\n"),
            Txt("  \"expanded_queries\": [\n"),
            Txt("    {\n"),
            Txt("      \"query\": \"<string>\",\n"),
            Txt("      \"type\": \"<string>\",\n"),
            Txt("      \"user_intent\": \"<string>\",\n"),
            Txt("      \"reasoning\": \"<string>\"\n"),
            Txt("    }\n"),
            Txt("  ]\n"),
            Txt("}")>>

(***************************************************************************)
(* The state of one browser session.                                       *)
(***************************************************************************)
VARIABLES
  gemini_key,           \* the API key field
  selected_model_name,  \* the model selectbox
  use_custom,           \* the "Use Custom Model ID?" checkbox
  custom_text,          \* the Custom Model ID field
  user_query,           \* the query text area
  mode,                 \* the Search Mode radio
  data,                 \* st.session_state.data
  prompt,               \* the prompt QUERY_FANOUT_PROMPT last returned
  messages,             \* what the Run branch of the latest script run put on the page
  last_run              \* the most recent Run: its arguments, the service's answer, its calls

vars ==
  <<gemini_key, selected_model_name, use_custom, custom_text, user_query, mode,
    data, prompt, messages, last_run>>

widgets == <<gemini_key, selected_model_name, use_custom, custom_text, user_query, mode>>

\* model_id as the sidebar leaves it: the catalog id, or the custom field's value
\* (which starts as the catalog id) when the checkbox is ticked
model_id ==
  IF use_custom /\ custom_text # Untouched
    THEN custom_text
    ELSE MODEL_CATALOG[selected_model_name].id

model_icon == MODEL_CATALOG[selected_model_name].icon

\* no Run button at all: the disabled flag is never set
run_button_disabled_Never == FALSE

run_button_disabled == strip(user_query) = <<>>

Message(kind, text, arg) == [kind |-> kind, text |-> text, arg |-> arg]

\* the except branch of generate_fanout
ExceptBranch(e, active_model_id) ==
  <<Message("error", "Error with model", active_model_id),
    Message("error", e.msg, e.type)>>
    \o (IF e.has404 \/ e.hasNotFound
          THEN <<Message("warning", "This model may not be available with your API key. Try:", ""),
                 Message("markdown", "Gemini 1.5 Pro (Legacy) - Most widely available", ""),
                 Message("markdown", "Gemini 2.5 Pro - If you have access", "")>>
          ELSE <<>>)

Call(active_model_id, p) ==
  [model |-> active_model_id, prompt |-> p, api_key |-> gemini_key]

\* str(e) of a JSONDecodeError: the message and the position; no position of the
\* model's texts spells 404
DecodeException(r) == Exception("JSONDecodeError", r.msg, FALSE, FALSE)

\* generate_fanout that falls back to the legacy model when the call raises
generate_fanout_Fallback(query, md, active_model_id, answer) ==
  LET p == QUERY_FANOUT_PROMPT(query, md)
      first == Call(active_model_id, p)
      r == Loaded(answer.text)
  IN IF answer.kind = "raises"
       THEN [prompt |-> p, calls |-> <<first, Call("gemini-1.5-pro", p)>>,
             result |-> PyNone,
             messages |-> ExceptBranch(answer.error, active_model_id),
             escaped |-> NoException]
     ELSE IF ~r.ok
       THEN [prompt |-> p, calls |-> <<first>>, result |-> PyNone,
             messages |-> ExceptBranch(DecodeException(r), active_model_id),
             escaped |-> NoException]
     ELSE [prompt |-> p, calls |-> <<first>>, result |-> r.val, messages |-> <<>>,
           escaped |-> NoException]

\* generate_fanout that treats a count mismatch as an error
generate_fanout_CountChecked(query, md, active_model_id, answer) ==
  LET p == QUERY_FANOUT_PROMPT(query, md)
      first == Call(active_model_id, p)
      r == Loaded(answer.text)
      d == DictGet(r.val, "generation_details", PyDict(<<>>))
      q == DictGet(r.val, "expanded_queries", PyList(<<>>))
  IN IF answer.kind = "raises"
       THEN [prompt |-> p, calls |-> <<first>>, result |-> PyNone,
             messages |-> ExceptBranch(answer.error, active_model_id),
             escaped |-> NoException]
     ELSE IF ~r.ok
       THEN [prompt |-> p, calls |-> <<first>>, result |-> PyNone,
             messages |-> ExceptBranch(DecodeException(r), active_model_id),
             escaped |-> NoException]
     ELSE IF r.val.t = "dict" /\ d.t = "dict"
             /\ DictGet(d, "target_query_count", PyInt(0)).n # Len(q.items)
       THEN [prompt |-> p, calls |-> <<first>>, result |-> PyNone,
             messages |-> ExceptBranch(Exception("ValueError", "count mismatch",
                                                 FALSE, FALSE), active_model_id),
             escaped |-> NoException]
     ELSE [prompt |-> p, calls |-> <<first>>, result |-> r.val, messages |-> <<>>,
           escaped |-> NoException]

\* generate_fanout whose except clause catches the service's errors only
generate_fanout_NarrowExcept(query, md, active_model_id, answer) ==
  LET p == QUERY_FANOUT_PROMPT(query, md)
      first == Call(active_model_id, p)
      r == Loaded(answer.text)
  IN IF answer.kind = "raises"
       THEN [prompt |-> p, calls |-> <<first>>, result |-> PyNone,
             messages |-> ExceptBranch(answer.error, active_model_id),
             escaped |-> NoException]
     ELSE IF ~r.ok
       THEN [prompt |-> p, calls |-> <<first>>, result |-> PyNone,
             messages |-> <<>>, escaped |-> DecodeException(r)]
     ELSE [prompt |-> p, calls |-> <<first>>, result |-> r.val, messages |-> <<>>,
           escaped |-> NoException]

\* generate_fanout(query, mode, active_model_id), given what the service answers
\* to the one generate_content call: the prompt built, the calls made, the value
\* returned, what the except branch put on the page, and the exception that
\* leaves the function (none: `except Exception` catches every one raised in the try)
generate_fanout(query, md, active_model_id, answer) ==
  LET p == QUERY_FANOUT_PROMPT(query, md)
      first == Call(active_model_id, p)
      r == Loaded(answer.text)
  IN IF answer.kind = "raises"
       THEN [prompt |-> p, calls |-> <<first>>, result |-> PyNone,
             messages |-> ExceptBranch(answer.error, active_model_id),
             escaped |-> NoException]
     ELSE IF ~r.ok
       THEN [prompt |-> p, calls |-> <<first>>, result |-> PyNone,
             messages |-> ExceptBranch(DecodeException(r), active_model_id),
             escaped |-> NoException]
     ELSE [prompt |-> p, calls |-> <<first>>, result |-> r.val, messages |-> <<>>,
           escaped |-> NoException]

NoRun ==
  [ran |-> FALSE, name |-> "", model_id |-> "", mode |-> "", query |-> <<>>,
   answer |-> Returns(<<>>), calls |-> <<>>, result |-> PyNone,
   escaped |-> NoException, had_result |-> FALSE]

(***************************************************************************)
(* The results section (lines 231-336), a function of the session slot and *)
(* the sidebar as the current script run reads them.  The per-type metric  *)
(* row and the table's column labels are left out.                         *)
(***************************************************************************)
Absent == [t |-> "absent", b |-> FALSE, n |-> 0, s |-> "", items |-> <<>>]

NoFile == [model_id |-> "", mode |-> "", ext |-> ""]

\* mode.replace(' ', '_')
ModeFileTag(md) ==
  CASE md = "AI Overview (simple)" -> "AI_Overview_(simple)"
    [] md = "AI Mode (complex)" -> "AI_Mode_(complex)"
    [] OTHER -> md

\* f"qforia_{model_id}_{mode.replace(' ', '_')}.<ext>"
FileName(ext) == [model_id |-> model_id, mode |-> ModeFileTag(mode), ext |-> ext]

Page(view) ==
  [view |-> view, exception |-> "", header_icon |-> "", header_name |-> "",
   reasoning |-> Absent, target |-> Absent, generated |-> -1, accuracy |-> Absent,
   table |-> <<>>, empty_warning |-> FALSE, csv_name |-> NoFile,
   json_name |-> NoFile, json_data |-> Absent]

\* min(100, int((actual / target) * 100)), or "N/A"; bool is an int in Python.
\* For the counts of the model the float quotient truncates to the integer quotient.
match_pct(target, actual) ==
  LET tn == IF target.t = "bool" THEN (IF target.b THEN 1 ELSE 0) ELSE target.n
  IN IF target.t \in {"int", "bool"} /\ tn > 0
       THEN LET pct == (actual * 100) \div tn
            IN PyInt(IF pct < 100 THEN pct ELSE 100)
       ELSE PyStr("N/A")

results_display ==
  IF gemini_key = "" THEN Page("stopped")
  ELSE IF ~Truthy(data) THEN Page("welcome")
  ELSE IF data.t # "dict" THEN [Page("exception") EXCEPT !.exception = "AttributeError"]
  ELSE
    LET details == DictGet(data, "generation_details", PyDict(<<>>))
        queries == DictGet(data, "expanded_queries", PyList(<<>>))
    IN IF details.t # "dict"
         THEN [Page("exception") EXCEPT !.exception = "AttributeError"]
       ELSE IF queries.t \notin {"list", "dict", "str"}
         THEN [Page("exception") EXCEPT !.exception = "TypeError"]
       ELSE
         LET target == DictGet(details, "target_query_count", PyStr("N/A"))
             reasoning == DictGet(details, "reasoning_for_count", PyStr("N/A"))
             actual == IF queries.t = "str" THEN Len(queries.s) ELSE Len(queries.items)
             head == [Page("results") EXCEPT
                        !.header_icon = model_icon,
                        !.header_name = selected_model_name,
                        !.reasoning = reasoning]
             metrics == [head EXCEPT
                           !.target = target,
                           !.generated = actual,
                           !.accuracy = match_pct(target, actual)]
         IN IF target.t \in {"list", "dict"}
              THEN [head EXCEPT !.exception = "TypeError"]
            ELSE IF queries.t # "list"
              THEN [metrics EXCEPT !.exception = "ValueError"]
            ELSE IF queries.items = <<>>
              THEN [metrics EXCEPT !.empty_warning = TRUE]
            ELSE [metrics EXCEPT
                    !.table = ListVals(queries),
                    !.csv_name = FileName("csv"),
                    !.json_name = FileName("json"),
                    !.json_data = data]

(***************************************************************************)
(* Actions: each is one script run, started by one widget.                 *)
(***************************************************************************)
Init ==
  /\ gemini_key = ""
  /\ selected_model_name = CatalogOrder[1]
  /\ use_custom = FALSE
  /\ custom_text = Untouched
  /\ user_query = DefaultQuery
  /\ mode = "AI Overview (simple)"
  /\ data = PyNone
  /\ prompt = <<>>
  /\ messages = <<>>
  /\ last_run = NoRun

\* a script run that does not take the Run branch, after the widgets changed
Rerun == /\ messages' = <<>>
         /\ UNCHANGED <<data, prompt, last_run>>

\* the sidebar below the key field is rendered only with a key (st.stop otherwise)
EnterKey(k) ==
  /\ gemini_key' = k
  /\ UNCHANGED <<selected_model_name, use_custom, custom_text, user_query, mode>>
  /\ Rerun

SelectModel(name) ==
  /\ gemini_key # ""
  /\ selected_model_name' = name
  /\ UNCHANGED <<gemini_key, use_custom, custom_text, user_query, mode>>
  /\ Rerun

ToggleCustom ==
  /\ gemini_key # ""
  /\ use_custom' = ~use_custom
  /\ UNCHANGED <<gemini_key, selected_model_name, custom_text, user_query, mode>>
  /\ Rerun

TypeCustomId(id) ==
  /\ gemini_key # ""
  /\ use_custom
  /\ custom_text' = id
  /\ UNCHANGED <<gemini_key, selected_model_name, use_custom, user_query, mode>>
  /\ Rerun

EnterQuery(q) ==
  /\ gemini_key # ""
  /\ user_query' = q
  /\ UNCHANGED <<gemini_key, selected_model_name, use_custom, custom_text, mode>>
  /\ Rerun

SetMode(md) ==
  /\ gemini_key # ""
  /\ mode' = md
  /\ UNCHANGED <<gemini_key, selected_model_name, use_custom, custom_text, user_query>>
  /\ Rerun

\* a download button: the file is served, the script runs again
Download ==
  /\ results_display.csv_name # NoFile
  /\ UNCHANGED widgets
  /\ Rerun

\* the slot keeps what it held when the run returns nothing
SlotAfterRun_NoReset(old, result_data) ==
  IF Truthy(result_data) THEN result_data ELSE old

\* st.session_state.data after lines 221-227
SlotAfterRun(old, result_data) ==
  IF Truthy(result_data) THEN result_data ELSE PyNone

\* the Run Fan-Out button, given the service's answer to the call
Run(answer) ==
  /\ gemini_key # ""
  /\ ~run_button_disabled
  /\ \E g \in {generate_fanout(user_query, mode, model_id, answer)} :
        /\ prompt' = g.prompt
        /\ last_run' =
             [ran |-> TRUE, name |-> selected_model_name, model_id |-> model_id,
              mode |-> mode, query |-> user_query, answer |-> answer,
              calls |-> g.calls, result |-> g.result, escaped |-> g.escaped,
              had_result |-> Truthy(data)]
        /\ IF g.escaped # NoException
             THEN /\ data' = PyNone
                  /\ messages' = <<Message("exception", g.escaped.msg, g.escaped.type)>>
             ELSE /\ data' = SlotAfterRun(data, g.result)
                  /\ messages' =
                       g.messages
                         \o (IF Truthy(g.result)
                               THEN <<Message("balloons", "", ""),
                                      Message("success",
                                              "Successfully generated queries using",
                                              selected_model_name)>>
                               ELSE <<>>)
  /\ UNCHANGED widgets

\* the texts the service answers with in a session
SessionTexts ==
  { DocText(Document(2, <<ItemA, ItemB>>)),
    DocText(Document(20, <<ItemB>>)),
    SubSeq(DocText(Document(2, <<ItemA, ItemB>>)), 1, 9),
    DocText(PyDict(<<>>)),
    DocText(PyList(<<ItemA>>)) }

SessionAnswers == ServiceErrors \cup {Returns(t) : t \in SessionTexts}

Next ==
  \/ \E k \in Keys : EnterKey(k)
  \/ \E name \in ModelChoices : SelectModel(name)
  \/ ToggleCustom
  \/ \E id \in CustomIds : TypeCustomId(id)
  \/ \E q \in TypedQueries \cup {DefaultQuery} : EnterQuery(q)
  \/ \E md \in Modes : SetMode(md)
  \/ Download
  \/ \E a \in SessionAnswers : Run(a)

\* a browser session
Spec == Init /\ [][Next]_vars

(***************************************************************************)
(* generate_fanout and the slot over every response text: a session with   *)
(* the key entered and the sidebar left at its defaults.                   *)
(***************************************************************************)
InitKeyed ==
  /\ gemini_key = "key-1"
  /\ selected_model_name = CatalogOrder[1]
  /\ use_custom = FALSE
  /\ custom_text = Untouched
  /\ user_query = DefaultQuery
  /\ mode = "AI Overview (simple)"
  /\ data = PyNone
  /\ prompt = <<>>
  /\ messages = <<>>
  /\ last_run = NoRun

NextFanout == \E t \in ResponseTexts : Run(Returns(t))

FanoutSpec == InitKeyed /\ [][NextFanout]_vars

(***************************************************************************)
(* QUERY_FANOUT_PROMPT over every non-empty query and both modes.          *)
(***************************************************************************)
PromptChunks == {" ", "suv", "\""}

PromptQueries == UNION {[1..n -> PromptChunks] : n \in 1..MaxQueryLen}

InitPrompt ==
  /\ gemini_key = "key-1"
  /\ selected_model_name = CatalogOrder[1]
  /\ use_custom = FALSE
  /\ custom_text = Untouched
  /\ user_query \in PromptQueries
  /\ mode \in Modes
  /\ data = PyNone
  /\ prompt = <<>>
  /\ messages = <<>>
  /\ last_run = NoRun

\* line 180 alone: the builder applied to the query and the mode
BuildPrompt ==
  /\ prompt' = QUERY_FANOUT_PROMPT(user_query, mode)
  /\ UNCHANGED <<widgets, data, messages, last_run>>

NextPrompt == BuildPrompt

PromptSpec == InitPrompt /\ [][NextPrompt]_vars

(***************************************************************************)
(* Properties.                                                             *)
(***************************************************************************)
\* the latest Run was answered with this response text
RanText(text) == last_run.ran /\ last_run.answer = Returns(text)

\* the page shows an error report of generate_fanout's except branch
ErrorReported ==
  /\ Len(messages) >= 2
  /\ messages[1] = Message("error", "Error with model", last_run.model_id)
  /\ messages[2].kind = "error"

NoSuccessShown == \A i \in 1..Len(messages) : messages[i].kind # "success"

NothingReported == \A i \in 1..Len(messages) : messages[i].kind \notin {"error", "exception"}

\* C1: a well-formed document wrapped in a leading ```json and a trailing ```
\* (with or without whitespace around the markers) is normalized to the same
\* result as the unwrapped document: the document itself, returned and stored.
C1_FenceTolerance ==
  \A d \in WellFormedDocs, spaced \in BOOLEAN :
    RanText(Fenced(DocText(d), spaced)) =>
      /\ last_run.result = d
      /\ data = d
      /\ NothingReported

\* C2: a response that parses but does not match the declared schema fails as a
\* malformed response: an error is reported, generate_fanout returns nothing,
\* the session slot stays empty and no part of the document is displayed.
C2_SchemaFailure ==
  (last_run.ran /\ last_run.answer.kind = "returns"
     /\ last_run.answer.text \in SchemaViolationTexts) =>
    /\ last_run.result = PyNone
    /\ ErrorReported
    /\ data = PyNone
    /\ results_display.view # "results"

\* C3: a truncated or syntactically invalid response text ends generate_fanout in
\* the failure outcome: the error is reported, nothing is returned, no exception
\* leaves the function, and the session slot is empty afterwards.
C3_MalformedInputFails ==
  (last_run.ran /\ last_run.answer.kind = "returns"
     /\ last_run.answer.text \in TruncatedTexts \cup InvalidTexts) =>
    /\ last_run.result = PyNone
    /\ last_run.escaped = NoException
    /\ ErrorReported
    /\ messages[2].arg = "JSONDecodeError"
    /\ NoSuccessShown
    /\ data = PyNone
    /\ results_display.view = "welcome"

\* a truncated text failed after an earlier result had been stored
C3_Witness ==
  /\ last_run.ran
  /\ last_run.answer.text \in TruncatedTexts
  /\ Len(last_run.answer.text) > 3
  /\ last_run.had_result
  /\ data = PyNone

\* whether sub occurs in seq as a contiguous run
Contains(seq, sub) ==
  \E i \in 0..(Len(seq) - Len(sub)) : SubSeq(seq, i + 1, i + Len(sub)) = sub

\* the policy table: at least 10 in the simple mode, at least 20 in the complex one
PolicyThreshold(md) == IF md = "AI Overview (simple)" THEN 10 ELSE 20

MinimumCountInstruction(n) ==
  <<Txt("This number must be **at least "), Num(n), Txt("**. ")>>

\* C4: for every non-empty query and either mode the prompt holds the query
\* verbatim and a minimum-count instruction with the mode's policy threshold
\* (10 simple, 20 complex), and no minimum-count instruction with another one.
C4_PromptContract ==
  prompt # <<>> =>
    /\ Contains(prompt, Embed(user_query))
    /\ Contains(prompt, MinimumCountInstruction(PolicyThreshold(mode)))
    /\ \A i \in 1..(Len(prompt) - 1) :
         prompt[i] = Txt("This number must be **at least ")
           => prompt[i + 1] = Num(PolicyThreshold(mode))

\* the prompt of a longest query, with whitespace and a quote in it, in complex mode
C4_Witness ==
  /\ prompt # <<>>
  /\ mode = "AI Mode (complex)"
  /\ Len(user_query) = MaxQueryLen
  /\ user_query[1] = " "
  /\ user_query[MaxQueryLen] = "\""

\* C5: one Run makes exactly one outbound call, with the model identifier active
\* at the click, whether the call succeeds or raises: no retry, no fallback.
C5_OneCallPerRun ==
  last_run.ran =>
    /\ Len(last_run.calls) = 1
    /\ last_run.calls[1].model = last_run.model_id

\* a not-found error on a custom model id: the fallback hint is shown, one call made
C5_Witness ==
  /\ last_run.ran
  /\ last_run.answer.kind = "raises"
  /\ last_run.answer.error.has404
  /\ last_run.model_id \in CustomIds
  /\ \E i \in 1..Len(messages) : messages[i].kind = "warning"

\* the accuracy figure of a document with this target and this many queries
AccuracyFigure(target, n) ==
  IF target > 0
    THEN PyInt(IF (n * 100) \div target < 100 THEN (n * 100) \div target ELSE 100)
    ELSE PyStr("N/A")

\* C6: a well-formed document whose target_query_count differs from the number
\* of expanded queries is no error: it is returned and stored whole, and the
\* page shows its target, its number of queries and the accuracy they give.
C6_CountMismatchIsNoError ==
  \A t \in TargetCounts, qs \in QueryLists :
    (t # Len(qs) /\ RanText(DocText(Document(t, qs)))) =>
      /\ last_run.result = Document(t, qs)
      /\ NothingReported
      /\ data = Document(t, qs)
      /\ results_display.view = "results"
      /\ results_display.exception = ""
      /\ results_display.target = PyInt(t)
      /\ results_display.generated = Len(qs)
      /\ results_display.accuracy = AccuracyFigure(t, Len(qs))
      /\ results_display.table = qs

\* target 20 with fewer queries than that
C6_Witness ==
  /\ \E qs \in QueryLists : qs # <<>> /\ RanText(DocText(Document(20, qs)))
  /\ results_display.view = "results"
  /\ results_display.accuracy # PyInt(100)

\* C7: a well-formed document without fences comes back unchanged: the stored
\* result has the document's target count, its count reasoning and its queries,
\* in input order with every field value as given.
C7_RoundTrip ==
  \A t \in TargetCounts, qs \in QueryLists :
    RanText(DocText(Document(t, qs))) =>
      /\ data.t = "dict"
      /\ DictGet(DictGet(data, "generation_details", PyNone), "target_query_count",
                 PyNone) = PyInt(t)
      /\ DictGet(DictGet(data, "generation_details", PyNone), "reasoning_for_count",
                 PyNone) = PyStr("test")
      /\ ListVals(DictGet(data, "expanded_queries", PyNone)) = qs
      /\ data = Document(t, qs)

\* two different queries, in order
C7_Witness ==
  /\ RanText(DocText(Document(2, <<ItemB, ItemA>>)))
  /\ results_display.table = <<ItemB, ItemA>>

\* the document of the latest Run, None when the call raised or the text did not parse
LatestDocument ==
  IF last_run.answer.kind = "returns" /\ json_loads(last_run.answer.text).ok
    THEN json_loads(last_run.answer.text).val
    ELSE PyNone

\* C8: the session slot is determined by the most recent Run alone: that run's
\* parsed document if the run succeeded (returned a non-empty document), empty
\* if it did not; before any Run it is empty.  No earlier result survives.
C8_SlotFromLatestRun ==
  /\ ~last_run.ran => data = PyNone
  /\ last_run.ran =>
       data = (IF Truthy(LatestDocument) THEN LatestDocument ELSE PyNone)
  /\ results_display.view = "results" => results_display.json_data \in {Absent, LatestDocument}

\* a failed Run after a Run that had stored a result
C8_Witness ==
  /\ last_run.ran
  /\ last_run.had_result
  /\ last_run.answer.kind = "raises"
  /\ data = PyNone
  /\ results_display.view = "welcome"

\* C9: the prompt builder and the outbound call are only ever invoked with a
\* query that is neither empty nor whitespace-only, and with an API key entered.
C9_CallsNeedQueryAndKey ==
  /\ last_run.ran =>
       /\ strip(last_run.query) # <<>>
       /\ \A i \in 1..Len(last_run.calls) :
            /\ last_run.calls[i].api_key # ""
            /\ last_run.calls[i].prompt =
                 QUERY_FANOUT_PROMPT(last_run.query, last_run.mode)
  /\ prompt # <<>> => last_run.ran /\ prompt = last_run.calls[1].prompt

\* a Run with a padded query; the text area now holds whitespace only
C9_Witness ==
  /\ last_run.ran
  /\ last_run.query = <<" ", "suv", " ">>
  /\ user_query = <<" ">>
  /\ run_button_disabled

\* C10: whenever a stored result is displayed, the model of the "Generated by"
\* header and the model id and mode of the export file names are those of the
\* Run that produced the result.
C10_ResultAttribution ==
  (last_run.ran /\ results_display.view = "results") =>
    /\ results_display.header_name = last_run.name
    /\ results_display.csv_name # NoFile =>
         /\ results_display.csv_name.model_id = last_run.model_id
         /\ results_display.csv_name.mode = ModeFileTag(last_run.mode)
         /\ results_display.json_name.model_id = last_run.model_id
         /\ results_display.json_name.mode = ModeFileTag(last_run.mode)

====
